---- MODULE Spec2Model ----
(***************************************************************************)
(* A model of pogrep (src/pogrep.py): pattern construction, path           *)
(* resolution, the scan of the catalog files, and the colorized display.   *)
(*                                                                         *)
(* A text is a sequence of characters (one-character strings).  The three  *)
(* library calls the program makes on regular expressions (regex.search,   *)
(* regex.sub, regex.escape) are modelled on the dialect the bounded        *)
(* patterns can reach: literals, `.', `\b', backslash escapes, top-level   *)
(* alternation `|', a leading `(?i)', and an unbalanced `(' that does not  *)
(* compile.                                                                *)
(***************************************************************************)
EXTENDS Integers, Sequences, FiniteSets, TLC

\* ------------------------------------------------------------------------
\* Characters and strings
\* ------------------------------------------------------------------------

BS == "\\"

\* \w of the regex dialect, restricted to the characters of the model.
WordChars == {"a", "b", "A", "B", "d", "e", "f", "i", "n", "s", "u",
              "0", "1", "2", "3", "4", "5", "6", "7", "8", "9"}

IsWord(c) == c \in WordChars

\* str.lower on the characters of the model (the case folding of (?i)).
Lower(c) == IF c = "A" THEN "a" ELSE IF c = "B" THEN "b" ELSE c

\* The characters regex.escape(special_only=True) puts a backslash before:
\* the metacharacters of the dialect and white space.
EscapedChars == {"(", ")", "[", "]", "{", "}", "?", "*", "+", "|", "^", "$",
                 BS, ".", "-", "#", "&", "~", " ", "\n"}

RECURSIVE Escape(_)
Escape(s) ==
    IF s = <<>> THEN <<>>
    ELSE (IF Head(s) \in EscapedChars THEN <<BS, Head(s)>> ELSE <<Head(s)>>)
         \o Escape(Tail(s))

\* s[from+1 .. to] with 0-based half-open positions [from, to).
Slice(s, from, to) == SubSeq(s, from + 1, to)

\* `needle in hay' of Python strings.
Contains(hay, needle) ==
    \E i \in 0..(Len(hay) - Len(needle)) :
        Slice(hay, i, i + Len(needle)) = needle

\* ------------------------------------------------------------------------
\* The regular expressions
\* ------------------------------------------------------------------------

ICasePrefix == <<"(", "?", "i", ")">>

HasICase(p) == Len(p) >= 4 /\ SubSeq(p, 1, 4) = ICasePrefix

\* The atoms of one pattern, alternatives in order.  acc is the alternatives
\* closed so far, cur the atoms of the open one.  An unbalanced "(" or a
\* trailing backslash is a pattern the library refuses (regex.error).
RECURSIVE ParseFrom(_, _, _, _)
ParseFrom(p, i, acc, cur) ==
    IF i > Len(p) THEN [valid |-> TRUE, alts |-> Append(acc, cur)]
    ELSE IF p[i] = BS THEN
        IF i = Len(p) THEN [valid |-> FALSE, alts |-> <<>>]
        ELSE IF p[i + 1] = "b"
             THEN ParseFrom(p, i + 2, acc, Append(cur, [k |-> "wb", c |-> ""]))
             ELSE ParseFrom(p, i + 2, acc,
                            Append(cur, [k |-> "lit", c |-> p[i + 1]]))
    ELSE IF p[i] \in {"(", ")"} THEN [valid |-> FALSE, alts |-> <<>>]
    ELSE IF p[i] = "|" THEN ParseFrom(p, i + 1, Append(acc, cur), <<>>)
    ELSE IF p[i] = "." THEN ParseFrom(p, i + 1, acc,
                                      Append(cur, [k |-> "any", c |-> ""]))
    ELSE ParseFrom(p, i + 1, acc, Append(cur, [k |-> "lit", c |-> p[i]]))

\* What the library compiles a pattern string to.
Compile(p) ==
    LET ic   == HasICase(p)
        body == IF ic THEN SubSeq(p, 5, Len(p)) ELSE p
        r    == ParseFrom(body, 1, <<>>, <<>>)
    IN  [valid |-> r.valid, icase |-> ic, alts |-> r.alts]

\* \b at position pos (0-based, between text[pos] and text[pos+1]).
IsBoundary(text, pos) ==
    LET before == pos >= 1 /\ IsWord(text[pos])
        after  == pos < Len(text) /\ IsWord(text[pos + 1])
    IN  before # after

\* The end of the match of the atoms k.. at pos, or -1.
RECURSIVE MatchAtoms(_, _, _, _, _)
MatchAtoms(atoms, k, text, pos, icase) ==
    IF k > Len(atoms) THEN pos
    ELSE LET a == atoms[k] IN
        IF a.k = "wb" THEN
            IF IsBoundary(text, pos)
            THEN MatchAtoms(atoms, k + 1, text, pos, icase) ELSE -1
        ELSE IF pos >= Len(text) THEN -1
        ELSE IF a.k = "any" THEN
            IF text[pos + 1] # "\n"
            THEN MatchAtoms(atoms, k + 1, text, pos + 1, icase) ELSE -1
        ELSE IF (IF icase THEN Lower(a.c) = Lower(text[pos + 1])
                          ELSE a.c = text[pos + 1])
            THEN MatchAtoms(atoms, k + 1, text, pos + 1, icase) ELSE -1

\* The end of the match at pos: the first alternative that matches there
\* (and, with advance, matches at least one character), or -1.
RECURSIVE MatchAlts(_, _, _, _, _)
MatchAlts(cp, j, text, pos, advance) ==
    IF j > Len(cp.alts) THEN -1
    ELSE LET e == MatchAtoms(cp.alts[j], 1, text, pos, cp.icase) IN
        IF e >= 0 /\ (~advance \/ e > pos) THEN e
        ELSE MatchAlts(cp, j + 1, text, pos, advance)

\* The leftmost match at or after pos, as <<start, end>>, or <<-1, -1>>.
\* advance forbids an empty match at pos itself (the library does not
\* report an empty match where the previous empty match was).
RECURSIVE FindFrom(_, _, _, _)
FindFrom(cp, text, pos, advance) ==
    IF pos > Len(text) THEN <<-1, -1>>
    ELSE LET e == MatchAlts(cp, 1, text, pos, advance) IN
        IF e >= 0 THEN <<pos, e>> ELSE FindFrom(cp, text, pos + 1, FALSE)

\* regex.search(pattern, text) is not None, for a pattern that compiles.
Search(cp, text) == FindFrom(cp, text, 0, FALSE)[1] >= 0

\* All the matches a global scan reports, left to right, non-overlapping.
RECURSIVE FindAll(_, _, _, _)
FindAll(cp, text, pos, advance) ==
    LET m == FindFrom(cp, text, pos, advance) IN
    IF m[1] < 0 THEN <<>>
    ELSE <<m>> \o FindAll(cp, text, m[2], m[1] = m[2])

\* regex.sub(pattern, pre + r"\g<0>" + post, text)
RECURSIVE SubWrap(_, _, _, _, _, _)
SubWrap(cp, text, pre, post, pos, advance) ==
    LET m == FindFrom(cp, text, pos, advance) IN
    IF m[1] < 0 THEN Slice(text, pos, Len(text))
    ELSE Slice(text, pos, m[1]) \o pre \o Slice(text, m[1], m[2]) \o post
         \o SubWrap(cp, text, pre, post, m[2], m[1] = m[2])

\* regex.sub(pattern, repl, text, count=1), repl holding no backslash.
SubFirst(cp, repl, text) ==
    LET m == FindFrom(cp, text, 0, FALSE) IN
    IF m[1] < 0 THEN text
    ELSE Slice(text, 0, m[1]) \o repl \o Slice(text, m[2], Len(text))

\* ------------------------------------------------------------------------
\* Colors and colorize
\* ------------------------------------------------------------------------

\* get_colors(): the four escape sequences of the terminal, or four empty
\* strings when the terminal database is not available (curses.error).
\* A sequence is the escape character and its parameters, the parameters
\* taken as one character of the text.
get_colors(term) ==
    IF term
    THEN [red |-> <<"ESC", "[31m">>, green |-> <<"ESC", "[32m">>,
          magenta |-> <<"ESC", "[35m">>, no_color |-> <<"ESC", "[m">>]
    ELSE [red |-> <<>>, green |-> <<>>, magenta |-> <<>>, no_color |-> <<>>]

\* One turn of the loop over prefixes in colorize; px is <<pnum, pfile>>.
\* The result is <<ok, text>>: ok is FALSE when the prefix, used as a
\* pattern, does not compile.
ColorizePrefix(result, cp, px, col) ==
    LET pnum   == px[1]
        pfile  == px[2]
        plain  == <<" ">> \o pfile \o pnum
        prefix_colored ==
            Escape(SubWrap(cp, plain, col.red, col.no_color, 0, FALSE))
        prefix == IF Contains(prefix_colored, Escape(col.red))
                  THEN prefix_colored ELSE plain
        prefix_replace ==
            <<" ">> \o col.magenta \o pfile \o col.green \o pnum
            \o col.no_color
        pp     == Compile(prefix)
    IN  IF pp.valid THEN <<TRUE, SubFirst(pp, prefix_replace, result)>>
        ELSE <<FALSE, <<>>>>

RECURSIVE ColorizePrefixes(_, _, _, _, _)
ColorizePrefixes(result, cp, prefixes, n, col) ==
    IF n > Len(prefixes) THEN [ok |-> TRUE, out |-> result]
    ELSE LET r == ColorizePrefix(result, cp, prefixes[n], col) IN
        IF r[1] THEN ColorizePrefixes(r[2], cp, prefixes, n + 1, col)
        ELSE [ok |-> FALSE, out |-> <<>>]

\* colorize(text, pattern, prefixes): ok is FALSE when regex.error is raised.
colorize(text, pattern, prefixes, col) ==
    LET cp == Compile(pattern) IN
    IF ~cp.valid THEN [ok |-> FALSE, out |-> <<>>]
    ELSE ColorizePrefixes(SubWrap(cp, text, col.red, col.no_color, 0, FALSE),
                          cp, prefixes, 1, col)

\* ------------------------------------------------------------------------
\* main: the pattern built from the flags
\* ------------------------------------------------------------------------

BuildPattern(raw, fixed_strings, word_regexp, ignore_case) ==
    LET p1 == IF fixed_strings THEN Escape(raw) ELSE raw
        p2 == IF word_regexp THEN <<BS, "b">> \o p1 \o <<BS, "b">> ELSE p1
    IN  IF ignore_case THEN ICasePrefix \o p2 ELSE p2

\* ------------------------------------------------------------------------
\* The files of the model
\* ------------------------------------------------------------------------
\* Paths are written without the ".po" suffix the real names end with.

PA  == <<"a">>             \* a catalog
PB  == <<"b">>             \* a catalog
PE  == <<"e">>             \* a regular file that is no catalog
PF  == <<"f">>             \* another one
PU  == <<"u">>             \* a regular file whose bytes do not decode
PD  == <<"d">>             \* a directory, holding d/a and d/u
PDA == <<"d", "/", "a">>   \* a catalog
PDU == <<"d", "/", "u">>   \* a regular file whose bytes do not decode
PN  == <<"n">>             \* no such path
PS  == <<"s">>             \* exists: a fifo or a device, no file, no directory

Entry(id, str, line) == [msgid |-> id, msgstr |-> str, linenum |-> line]

CatA  == <<Entry(<<"a">>, <<"b">>, 1), Entry(<<"b">>, <<>>, 2),
           Entry(<<"b">>, <<"a">>, 3)>>
CatB  == <<Entry(<<"a">>, <<>>, 1), Entry(<<"A">>, <<"B">>, 2)>>
CatDA == <<Entry(<<"a", "b">>, <<"a">>, 1)>>

\* os.path.isfile, os.path.isdir, os.path.exists
isfile(p) == p \in {PA, PB, PE, PF, PU, PDA, PDU}
isdir(p)  == p = PD
exists(p) == p # PN

\* glob.glob(elt + os.sep + "**/*.po", recursive=True)
GlobUnder(elt) == IF elt = PD THEN <<PDA, PDU>> ELSE <<>>

\* glob.glob("**/*.po", recursive=True) in the working directory
GlobCwd == <<PA, PDA, PDU, PE, PF>>

\* polib.pofile(filename): the entries of the catalog in file order, or the
\* exception raised.  polib reports a syntax error as an OSError (IOError);
\* bytes that do not decode in the catalog's charset raise
\* UnicodeDecodeError, which is a ValueError.
pofile(filename) ==
    IF filename = PA THEN [raises |-> "none", entries |-> CatA]
    ELSE IF filename = PB THEN [raises |-> "none", entries |-> CatB]
    ELSE IF filename = PDA THEN [raises |-> "none", entries |-> CatDA]
    ELSE IF filename \in {PU, PDU}
         THEN [raises |-> "UnicodeDecodeError", entries |-> <<>>]
    ELSE [raises |-> "OSError", entries |-> <<>>]

\* ------------------------------------------------------------------------
\* process_path
\* ------------------------------------------------------------------------

\* The loop of process_path from element n on: the files gathered, or the
\* element the function exits on.
RECURSIVE ProcessFrom(_, _, _, _)
ProcessFrom(path, recursive, n, acc) ==
    IF n > Len(path) THEN [exit |-> "none", files |-> acc, elt |-> <<>>]
    ELSE LET elt == path[n] IN
        IF isfile(elt) THEN ProcessFrom(path, recursive, n + 1, Append(acc, elt))
        ELSE IF isdir(elt) THEN
            IF recursive
            THEN ProcessFrom(path, recursive, n + 1, acc \o GlobUnder(elt))
            ELSE [exit |-> "Is a directory", files |-> <<>>, elt |-> elt]
        ELSE [exit |-> "No such file or directory", files |-> <<>>, elt |-> elt]

\* process_path(path, recursive); exit "0" is sys.exit(0).
process_path(path, recursive) ==
    IF Len(path) = 0 THEN
        IF ~recursive THEN [exit |-> "0", files |-> <<>>, elt |-> <<>>]
        ELSE [exit |-> "none", files |-> GlobCwd, elt |-> <<>>]
    ELSE ProcessFrom(path, recursive, 1, <<>>)

\* str.rstrip(os.sep)
RECURSIVE RStripSep(_)
RStripSep(s) ==
    IF s # <<>> /\ s[Len(s)] = "/" THEN RStripSep(SubSeq(s, 1, Len(s) - 1))
    ELSE s

\* [f for f in files if exclude_dir.rstrip(os.sep) + os.sep not in f], when
\* exclude_dir is given (None and "" are both written <<>>).
ExcludeDir(fs, exclude_dir) ==
    IF exclude_dir = <<>> THEN fs
    ELSE SelectSeq(fs, LAMBDA f : ~Contains(f, RStripSep(exclude_dir) \o <<"/">>))

\* ------------------------------------------------------------------------
\* find_in_po
\* ------------------------------------------------------------------------

Match(file, line, msgid, msgstr) ==
    [file |-> file, line |-> line, msgid |-> msgid, msgstr |-> msgstr]

\* Whether the test of one entry calls regex.search at all: Python's `and'
\* and `or' evaluate no further than needed.
Searches(entry, not_in_source, in_translation) ==
    entry.msgstr # <<>> /\ (~not_in_source \/ in_translation)

\* The test with the no-source flag read the wrong way round.
EntryMatchesSourceFlagKept(cp, entry, not_in_source, in_translation) ==
    /\ entry.msgstr # <<>>
    /\ \/ not_in_source /\ Search(cp, entry.msgid)
       \/ in_translation /\ Search(cp, entry.msgstr)

\* The test without the check that the entry is translated.
EntryMatchesUntranslated(cp, entry, not_in_source, in_translation) ==
    \/ ~not_in_source /\ Search(cp, entry.msgid)
    \/ in_translation /\ Search(cp, entry.msgstr)

\* The test of lines 89-92 on one entry, for a pattern that compiles.
EntryMatches(cp, entry, not_in_source, in_translation) ==
    /\ entry.msgstr # <<>>
    /\ \/ ~not_in_source /\ Search(cp, entry.msgid)
       \/ in_translation /\ Search(cp, entry.msgstr)

\* The inner loop putting each match in front of the ones it found before.
RECURSIVE ScanEntriesNewestFirst(_, _, _, _, _, _)
ScanEntriesNewestFirst(cp, filename, entries, n, not_in_source, in_translation) ==
    IF n > Len(entries) THEN <<>>
    ELSE LET e == entries[n] IN
        ScanEntriesNewestFirst(cp, filename, entries, n + 1, not_in_source,
                               in_translation)
        \o (IF EntryMatches(cp, e, not_in_source, in_translation)
            THEN <<Match(filename, e.linenum, e.msgid, e.msgstr)>> ELSE <<>>)

\* The matches the inner loop appends for one parsed file.
RECURSIVE ScanEntries(_, _, _, _, _, _)
ScanEntries(cp, filename, entries, n, not_in_source, in_translation) ==
    IF n > Len(entries) THEN <<>>
    ELSE LET e == entries[n] IN
        (IF EntryMatches(cp, e, not_in_source, in_translation)
         THEN <<Match(filename, e.linenum, e.msgid, e.msgstr)>> ELSE <<>>)
        \o ScanEntries(cp, filename, entries, n + 1, not_in_source, in_translation)

\* ------------------------------------------------------------------------
\* display_results
\* ------------------------------------------------------------------------

TermWidth == 80
Overhead == 7

Digit(n) == <<"0", "1", "2", "3", "4", "5", "6", "7", "8", "9">>[n + 1]

\* str(n) of a natural number
RECURSIVE Str(_)
Str(n) == IF n < 10 THEN <<Digit(n)>> ELSE Str(n \div 10) \o <<Digit(n % 10)>>

\* textwrap.fill(text, width) of a text without white space: the text cut
\* in lines of width characters.
RECURSIVE Fill(_, _)
Fill(text, width) ==
    IF Len(text) <= width THEN text
    ELSE SubSeq(text, 1, width) \o <<"\n">>
         \o Fill(SubSeq(text, width + 1, Len(text)), width)

\* {match.file for match in matches}
FilesOf(matches) == {matches[k].file : k \in 1..Len(matches)}

\* The prefix of one row: <<pnum, pfile>>.
PrefixOf(m, nfiles) ==
    <<Str(m.line) \o <<":">>, IF nfiles > 1 THEN m.file \o <<":">> ELSE <<>>>>

\* The left cell of one row.
LeftOf(m, line_number, nfiles) ==
    IF line_number
    THEN PrefixOf(m, nfiles)[2] \o PrefixOf(m, nfiles)[1] \o m.msgid
    ELSE m.msgid

\* tabulate(table, tablefmt="fancy_grid"), one line per row: the cells
\* between the vertical bars, each with a space on both sides.  The
\* horizontal rules and the padding of the columns are left out.
RECURSIVE Tabulate(_, _)
Tabulate(table, n) ==
    IF n > Len(table) THEN <<>>
    ELSE (IF n > 1 THEN <<"\n">> ELSE <<>>)
         \o <<"|", " ">> \o table[n][1] \o <<" ", "|", " ">> \o table[n][2]
         \o <<" ", "|">> \o Tabulate(table, n + 1)

\* What display_results hands to print when it draws the table.
TableText(matches, pattern, line_number, col) ==
    LET nfiles   == Cardinality(FilesOf(matches))
        width    == (TermWidth - Overhead) \div 2
        prefixes == IF line_number
                    THEN [k \in 1..Len(matches) |-> PrefixOf(matches[k], nfiles)]
                    ELSE <<>>
        table    == [k \in 1..Len(matches) |->
                        <<Fill(LeftOf(matches[k], line_number, nfiles), width),
                          Fill(matches[k].msgstr, width)>>]
    IN  colorize(Tabulate(table, 1), pattern, prefixes, col)

\* The orders a Python set of these names can be iterated in.
Orders(S) ==
    {q \in [1..Cardinality(S) -> S] : \A x \in S : \E k \in DOMAIN q : q[k] = x}

\* ------------------------------------------------------------------------
\* The state
\* ------------------------------------------------------------------------

VARIABLES
    pc,       \* where the run is: "start", "resolve", "scan", "report",
              \* "display"; "done" (main returned), "exit" (sys.exit),
              \* "raised" (an exception nobody caught); "call" and
              \* "returned" for a function applied on its own
    tty,      \* whether curses found the terminal's color capabilities
    args,     \* the argparse namespace
    files,    \* the resolved list of files, find_in_po's path
    idx,      \* the file the loop of find_in_po is at
    results,  \* find_in_po's results
    errors,   \* find_in_po's errors
    stdout,   \* what was printed to standard output, in order
    stderr,   \* what was printed to standard error, in order
    status,   \* the exit status, -1 while the process runs
    call,     \* the arguments of a function applied on its own
    ret       \* its result

vars == <<pc, tty, args, files, idx, results, errors, stdout, stderr, status,
          call, ret>>

\* Bounds of the inputs
MaxPaths  == 2

RECURSIVE Strs(_, _)
Strs(A, n) ==
    IF n = 0 THEN {<<>>}
    ELSE LET S == Strs(A, n - 1) IN S \cup {Append(x, c) : x \in S, c \in A}

RawPatterns  == {<<"a">>, <<"(">>}
PathNames    == {PA, PE, PD, PN, PS}
PathLists    == Strs(PathNames, MaxPaths)
ExcludeDirs  == {<<>>, <<"d", "/">>}

Namespace ==
    [pattern : RawPatterns, fixed_strings : BOOLEAN, word_regexp : BOOLEAN,
     ignore_case : BOOLEAN, line_number : BOOLEAN,
     files_with_matches : BOOLEAN, no_messages : BOOLEAN,
     recursive : BOOLEAN, translation : BOOLEAN, no_source : BOOLEAN,
     exclude_dir : ExcludeDirs, path : PathLists]

NoCall == [fn |-> "none"]

\* The process has started and parse_args has returned.
Init ==
    /\ pc = "start"
    /\ tty \in BOOLEAN
    /\ args \in Namespace
    /\ files = <<>>
    /\ idx = 1
    /\ results = <<>>
    /\ errors = <<>>
    /\ stdout = <<>>
    /\ stderr = <<>>
    /\ status = -1
    /\ call = NoCall
    /\ ret = NoCall

Traceback(exc) == [kind |-> "traceback", text |-> exc]

\* ------------------------------------------------------------------------
\* main, step by step
\* ------------------------------------------------------------------------

\* main, lines 243-248
MainBuildPattern ==
    /\ pc = "start"
    /\ args' = [args EXCEPT !.pattern =
                   BuildPattern(args.pattern, args.fixed_strings,
                                args.word_regexp, args.ignore_case)]
    /\ pc' = "resolve"
    /\ UNCHANGED <<tty, files, idx, results, errors, stdout, stderr, status,
                   call, ret>>

\* process_path, lines 138-140: no path and no -r
ProcessPathExit0 ==
    /\ pc = "resolve"
    /\ process_path(args.path, args.recursive).exit = "0"
    /\ pc' = "exit"
    /\ status' = 0
    /\ UNCHANGED <<tty, args, files, idx, results, errors, stdout, stderr,
                   call, ret>>

\* process_path, lines 149-158: the message and sys.exit(1)
ProcessPathExit1 ==
    /\ pc = "resolve"
    /\ LET r == process_path(args.path, args.recursive) IN
        /\ r.exit \in {"Is a directory", "No such file or directory"}
        /\ stderr' = Append(stderr, [kind |-> r.exit, text |-> r.elt])
    /\ pc' = "exit"
    /\ status' = 1
    /\ UNCHANGED <<tty, args, files, idx, results, errors, stdout, call, ret>>

\* process_path returns; main, lines 250-251; find_in_po, lines 80-81
ProcessPathReturn ==
    /\ pc = "resolve"
    /\ LET r == process_path(args.path, args.recursive) IN
        /\ r.exit = "none"
        /\ files' = ExcludeDir(r.files, args.exclude_dir)
    /\ idx' = 1
    /\ results' = <<>>
    /\ errors' = <<>>
    /\ pc' = "scan"
    /\ UNCHANGED <<tty, args, stdout, stderr, status, call, ret>>

\* find_in_po, lines 82-95, one file: parsed, and no search raises
ScanFile ==
    /\ pc = "scan"
    /\ idx <= Len(files)
    /\ LET po == pofile(files[idx])
           cp == Compile(args.pattern)
       IN /\ po.raises = "none"
          /\ \/ cp.valid
             \/ \A k \in 1..Len(po.entries) :
                    ~Searches(po.entries[k], args.no_source, args.translation)
          /\ results' = results \o
                (IF cp.valid
                 THEN ScanEntries(cp, files[idx], po.entries, 1,
                                  args.no_source, args.translation)
                 ELSE <<>>)
    /\ idx' = idx + 1
    /\ UNCHANGED <<pc, tty, args, files, errors, stdout, stderr, status,
                   call, ret>>

\* find_in_po, lines 85-87: polib raised OSError
ScanFileOSError ==
    /\ pc = "scan"
    /\ idx <= Len(files)
    /\ pofile(files[idx]).raises = "OSError"
    /\ errors' = Append(errors, [kind |-> "doesn't seem to be a .po file",
                                 text |-> files[idx]])
    /\ idx' = idx + 1
    /\ UNCHANGED <<pc, tty, args, files, results, stdout, stderr, status,
                   call, ret>>

\* find_in_po, line 84: polib raised an exception that is no OSError
ScanFileRaises ==
    /\ pc = "scan"
    /\ idx <= Len(files)
    /\ pofile(files[idx]).raises \notin {"none", "OSError"}
    /\ stderr' = Append(stderr, Traceback(pofile(files[idx]).raises))
    /\ idx' = idx + 1
    /\ pc' = "raised"
    /\ status' = 1
    /\ UNCHANGED <<tty, args, files, results, errors, stdout, call, ret>>

\* find_in_po, lines 90-91: regex.search raised on a pattern that does not
\* compile
ScanPatternError ==
    /\ pc = "scan"
    /\ idx <= Len(files)
    /\ LET po == pofile(files[idx]) IN
          /\ po.raises = "none"
          /\ ~Compile(args.pattern).valid
          /\ \E k \in 1..Len(po.entries) :
                 Searches(po.entries[k], args.no_source, args.translation)
    /\ stderr' = Append(stderr, Traceback("regex.error"))
    /\ idx' = idx + 1
    /\ pc' = "raised"
    /\ status' = 1
    /\ UNCHANGED <<tty, args, files, results, errors, stdout, call, ret>>

\* find_in_po, line 96
FindReturn ==
    /\ pc = "scan"
    /\ idx > Len(files)
    /\ pc' = IF call = NoCall THEN "report" ELSE "returned"
    /\ ret' = IF call = NoCall THEN ret
              ELSE [fn |-> "find_in_po", errors |-> errors, results |-> results]
    /\ UNCHANGED <<tty, args, files, idx, results, errors, stdout, stderr,
                   status, call>>

\* The warnings printed whether or not -s is given.
PrintErrorsLoud ==
    /\ pc = "report"
    /\ stderr' = stderr \o errors
    /\ pc' = "display"
    /\ UNCHANGED <<tty, args, files, idx, results, errors, stdout, status,
                   call, ret>>

\* main, lines 253-255
PrintErrors ==
    /\ pc = "report"
    /\ stderr' = IF args.no_messages THEN stderr ELSE stderr \o errors
    /\ pc' = "display"
    /\ UNCHANGED <<tty, args, files, idx, results, errors, stdout, status,
                   call, ret>>

\* display_results, lines 104-108: the file names, in the order of the set
DisplayFiles ==
    /\ pc = "display"
    /\ args.files_with_matches
    /\ \E q \in Orders(FilesOf(results)) :
          stdout' = stdout \o
              [k \in 1..Len(q) |->
                  get_colors(tty).magenta \o q[k] \o get_colors(tty).no_color]
    /\ pc' = "done"
    /\ status' = 0
    /\ UNCHANGED <<tty, args, files, idx, results, errors, stderr, call, ret>>

\* display_results, lines 109-128: the table
DisplayTable ==
    /\ pc = "display"
    /\ ~args.files_with_matches
    /\ LET t == TableText(results, args.pattern, args.line_number,
                          get_colors(tty))
       IN /\ t.ok
          /\ stdout' = Append(stdout, t.out)
    /\ pc' = "done"
    /\ status' = 0
    /\ UNCHANGED <<tty, args, files, idx, results, errors, stderr, call, ret>>

\* display_results, line 128: colorize raised regex.error
DisplayRaises ==
    /\ pc = "display"
    /\ ~args.files_with_matches
    /\ ~TableText(results, args.pattern, args.line_number, get_colors(tty)).ok
    /\ stderr' = Append(stderr, Traceback("regex.error"))
    /\ pc' = "raised"
    /\ status' = 1
    /\ UNCHANGED <<tty, args, files, idx, results, errors, stdout, call, ret>>

Next ==
    \/ MainBuildPattern
    \/ ProcessPathExit0
    \/ ProcessPathExit1
    \/ ProcessPathReturn
    \/ ScanFile
    \/ ScanFileOSError
    \/ ScanFileRaises
    \/ ScanPatternError
    \/ FindReturn
    \/ PrintErrors
    \/ DisplayFiles
    \/ DisplayTable
    \/ DisplayRaises

Spec == Init /\ [][Next]_vars

\* ------------------------------------------------------------------------
\* find_in_po applied on its own
\* ------------------------------------------------------------------------

MaxFiles  == 2
MaxRawLen == 1

FindRawChars == {"a", "b", ".", "("}
FindPatterns ==
    {BuildPattern(raw, f, w, i) :
        raw \in Strs(FindRawChars, MaxRawLen), f \in BOOLEAN, w \in BOOLEAN,
        i \in BOOLEAN}
FindFiles == {PA, PB, PE, PF, PU}

\* A namespace with every option at its default.
Defaults ==
    [pattern |-> <<>>, fixed_strings |-> FALSE, word_regexp |-> FALSE,
     ignore_case |-> FALSE, line_number |-> FALSE,
     files_with_matches |-> FALSE, no_messages |-> FALSE,
     recursive |-> FALSE, translation |-> FALSE, no_source |-> FALSE,
     exclude_dir |-> <<>>, path |-> <<>>]

\* find_in_po(pattern, path, not_in_source, in_translation) is entered.
InitFind ==
    /\ pc = "scan"
    /\ tty = TRUE
    /\ \E p \in FindPatterns, ns \in BOOLEAN, tr \in BOOLEAN :
          args = [Defaults EXCEPT !.pattern = p, !.no_source = ns,
                                  !.translation = tr]
    /\ files \in Strs(FindFiles, MaxFiles)
    /\ idx = 1
    /\ results = <<>>
    /\ errors = <<>>
    /\ stdout = <<>>
    /\ stderr = <<>>
    /\ status = -1
    /\ call = [fn |-> "find_in_po"]
    /\ ret = NoCall

NextFind ==
    \/ ScanFile
    \/ ScanFileOSError
    \/ ScanFileRaises
    \/ ScanPatternError
    \/ FindReturn

SpecFind == InitFind /\ [][NextFind]_vars

\* ------------------------------------------------------------------------
\* colorize applied on its own
\* ------------------------------------------------------------------------

MaxTextLen  == 3
MaxPrefixes == 1

TextChars     == {" ", "a", ".", "1"}
ColorPatterns == {<<"a">>, <<".">>, <<"1">>, <<"b">>, <<"(">>,
                  <<BS, "b", "a", BS, "b">>}
PrefixPairs   == {<<pnum, pfile>> :
                     pnum \in {<<>>, <<"1">>}, pfile \in {<<>>, <<"a">>, <<".">>}}

InitColorize ==
    /\ pc = "call"
    /\ tty \in BOOLEAN
    /\ args = Defaults
    /\ files = <<>>
    /\ idx = 1
    /\ results = <<>>
    /\ errors = <<>>
    /\ stdout = <<>>
    /\ stderr = <<>>
    /\ status = -1
    /\ \E t \in Strs(TextChars, MaxTextLen), p \in ColorPatterns,
          px \in Strs(PrefixPairs, MaxPrefixes) :
          call = [fn |-> "colorize", text |-> t, pattern |-> p, prefixes |-> px]
    /\ ret = NoCall

\* colorize returns its result
ColorizeReturn ==
    /\ pc = "call"
    /\ call.fn = "colorize"
    /\ LET r == colorize(call.text, call.pattern, call.prefixes,
                         get_colors(tty))
       IN /\ r.ok
          /\ ret' = [fn |-> "colorize", out |-> r.out]
    /\ pc' = "returned"
    /\ UNCHANGED <<tty, args, files, idx, results, errors, stdout, stderr,
                   status, call>>

\* colorize raises regex.error
ColorizeRaises ==
    /\ pc = "call"
    /\ call.fn = "colorize"
    /\ ~colorize(call.text, call.pattern, call.prefixes, get_colors(tty)).ok
    /\ ret' = [fn |-> "colorize", out |-> <<>>]
    /\ pc' = "raised"
    /\ UNCHANGED <<tty, args, files, idx, results, errors, stdout, stderr,
                   status, call>>

NextColorize ==
    \/ ColorizeReturn
    \/ ColorizeRaises

SpecColorize == InitColorize /\ [][NextColorize]_vars

\* ------------------------------------------------------------------------
\* The pattern of -w, built by main and applied to a text
\* ------------------------------------------------------------------------

MaxWordLen == 3

WordRawChars  == {"a", "b", "|"}
WordTextChars == {"a", "b", " "}

InitWord ==
    /\ pc = "call"
    /\ tty = TRUE
    /\ \E raw \in Strs(WordRawChars, MaxWordLen), f \in BOOLEAN, i \in BOOLEAN :
          args = [Defaults EXCEPT !.pattern = raw, !.fixed_strings = f,
                                  !.word_regexp = TRUE, !.ignore_case = i]
    /\ files = <<>>
    /\ idx = 1
    /\ results = <<>>
    /\ errors = <<>>
    /\ stdout = <<>>
    /\ stderr = <<>>
    /\ status = -1
    /\ \E t \in Strs(WordTextChars, MaxWordLen) :
          call = [fn |-> "regex", text |-> t]
    /\ ret = NoCall

\* main, lines 243-248, and the matches of the pattern in the text
WordMatches ==
    /\ pc = "call"
    /\ call.fn = "regex"
    /\ LET p == BuildPattern(args.pattern, args.fixed_strings,
                             args.word_regexp, args.ignore_case)
       IN /\ args' = [args EXCEPT !.pattern = p]
          /\ ret' = [fn |-> "regex",
                     matches |-> FindAll(Compile(p), call.text, 0, FALSE)]
    /\ pc' = "returned"
    /\ UNCHANGED <<tty, files, idx, results, errors, stdout, stderr, status,
                   call>>

NextWord == WordMatches

SpecWord == InitWord /\ [][NextWord]_vars

\* ------------------------------------------------------------------------
\* Properties
\* ------------------------------------------------------------------------

\* The pattern, as find_in_po receives it, matches the text.
PatternMatches(text) ==
    Compile(args.pattern).valid /\ Search(Compile(args.pattern), text)

searchOriginal    == ~args.no_source
searchTranslation == args.translation

\* The files of the list polib parsed, and the ones it refused as OSError.
Parsed(k)  == pofile(files[k]).raises = "none"
Refused(k) == pofile(files[k]).raises = "OSError"

\* The entry n of file k, as the Match find_in_po would make of it.
AsMatch(k, n) ==
    LET e == pofile(files[k]).entries[n]
    IN  Match(files[k], e.linenum, e.msgid, e.msgstr)

InResults(m) == \E j \in 1..Len(results) : results[j] = m

\* C1: when find_in_po returns, an entry with a non-empty translation is in
\* the results if and only if the original is searched and the pattern
\* matches it, or the translation is searched and the pattern matches it;
\* with both toggles off the results are empty and no search raises.
C1_MatchPredicate ==
    /\ pc = "returned" =>
          \A k \in 1..Len(files) :
              Parsed(k) =>
                  \A n \in 1..Len(pofile(files[k]).entries) :
                      LET e == pofile(files[k]).entries[n] IN
                      e.msgstr # <<>> =>
                          (InResults(AsMatch(k, n)) <=>
                              \/ searchOriginal /\ PatternMatches(e.msgid)
                              \/ searchTranslation /\ PatternMatches(e.msgstr))
    /\ (~searchOriginal /\ ~searchTranslation) =>
          /\ results = <<>>
          /\ Traceback("regex.error") \notin {stderr[j] : j \in 1..Len(stderr)}

\* C1 witness: a match found through the translation alone.
C1_Witness ==
    /\ pc = "returned"
    /\ ~searchOriginal /\ searchTranslation
    /\ \E j \in 1..Len(results) :
          PatternMatches(results[j].msgstr) /\ ~PatternMatches(results[j].msgid)
    /\ \E k \in 1..Len(files) :
          Parsed(k) /\ \E n \in 1..Len(pofile(files[k]).entries) :
              /\ pofile(files[k]).entries[n].msgstr # <<>>
              /\ ~InResults(AsMatch(k, n))

\* C2: no match of the results has an empty translation, at any point of
\* any scan.
C2_TranslatedNonEmpty ==
    \A j \in 1..Len(results) : results[j].msgstr # <<>>

\* C2 witness: a scan is over that read an entry without translation whose
\* original the pattern matches, the original being searched.
C2_Witness ==
    /\ pc = "returned"
    /\ searchOriginal
    /\ results # <<>>
    /\ \E k \in 1..Len(files) :
          Parsed(k) /\ \E n \in 1..Len(pofile(files[k]).entries) :
              LET e == pofile(files[k]).entries[n] IN
              e.msgstr = <<>> /\ PatternMatches(e.msgid)

\* The entry test of C3's exits: the path process_path stops at.
BadPath(p) == (isdir(p) /\ ~args.recursive) \/ ~exists(p)

\* C3: path resolution ends the run exactly when no path is given without
\* -r (status 0, no output) or a given path is a directory without -r or
\* does not exist (status 1, one error naming such a path); then no file
\* was parsed and nothing was printed to standard output.
C3_PathResolution ==
    /\ pc = "exit" =>
          /\ stdout = <<>>
          /\ idx = 1 /\ results = <<>> /\ errors = <<>>
          /\ \/ /\ status = 0
                /\ args.path = <<>> /\ ~args.recursive
                /\ stderr = <<>>
             \/ /\ status = 1
                /\ Len(stderr) = 1
                /\ \E n \in 1..Len(args.path) :
                      BadPath(args.path[n]) /\ stderr[1].text = args.path[n]
    /\ pc \in {"scan", "report", "display", "done", "raised"} =>
          /\ args.path # <<>> \/ args.recursive
          /\ \A n \in 1..Len(args.path) : ~BadPath(args.path[n])
    /\ pc = "resolve" => idx = 1 /\ stdout = <<>>

\* C4: a file that does not parse as a catalog gives one warning and no
\* match and does not end the run: with a pattern that compiles no scan
\* ends in an exception, and a scan that is over has one warning for each
\* such file, in order.
C4_ParseFailureIsolated ==
    /\ Compile(args.pattern).valid => pc # "raised"
    /\ pc = "returned" =>
          /\ Len(errors) =
                Cardinality({k \in 1..Len(files) : ~Parsed(k)})
          /\ \A j \in 1..Len(results) :
                \E k \in 1..Len(files) : Parsed(k) /\ results[j].file = files[k]

\* The escape sequences colorize can put in a text.
ColorCodes == {get_colors(TRUE).red, get_colors(TRUE).green,
               get_colors(TRUE).magenta, get_colors(TRUE).no_color}

\* The text with the color escape sequences taken out.
RECURSIVE StripColors(_)
StripColors(s) ==
    IF s = <<>> THEN <<>>
    ELSE IF Len(s) >= 2 /\ SubSeq(s, 1, 2) \in ColorCodes
         THEN StripColors(SubSeq(s, 3, Len(s)))
    ELSE <<Head(s)>> \o StripColors(Tail(s))

\* C5: the output of colorize, without the color escape sequences, is the
\* input text.
C5_RoundTrip ==
    (pc = "returned" /\ ret.fn = "colorize") => StripColors(ret.out) = call.text

\* The least position >= from where needle occurs in hay, or -1.
RECURSIVE IndexOf(_, _, _)
IndexOf(hay, needle, from) ==
    IF from + Len(needle) > Len(hay) THEN -1
    ELSE IF Slice(hay, from, from + Len(needle)) = needle THEN from
    ELSE IndexOf(hay, needle, from + 1)

\* What colorize returns if the prefixes are looked for as plain text: for
\* each pair in turn, the first occurrence of the prefix (in its colored
\* form when the pattern matches inside it) replaced by the two-color one.
RECURSIVE LiteralPrefixes(_, _, _, _, _)
LiteralPrefixes(result, cp, prefixes, n, col) ==
    IF n > Len(prefixes) THEN result
    ELSE LET pnum    == prefixes[n][1]
             pfile   == prefixes[n][2]
             plain   == <<" ">> \o pfile \o pnum
             colored == SubWrap(cp, plain, col.red, col.no_color, 0, FALSE)
             target  == IF col.red = <<>> \/ colored # plain THEN colored
                        ELSE plain
             at      == IndexOf(result, target, 0)
             repl    == <<" ">> \o col.magenta \o pfile \o col.green \o pnum
                        \o col.no_color
         IN  LiteralPrefixes(
                 IF at < 0 THEN result
                 ELSE Slice(result, 0, at) \o repl
                      \o Slice(result, at + Len(target), Len(result)),
                 cp, prefixes, n + 1, col)

\* C9: the prefix pass replaces, for each pair, the first occurrence of the
\* prefix taken as plain text, and nothing else.
C9_PrefixLiteral ==
    (pc = "returned" /\ ret.fn = "colorize") =>
        ret.out =
            LiteralPrefixes(
                SubWrap(Compile(call.pattern), call.text, get_colors(tty).red,
                        get_colors(tty).no_color, 0, FALSE),
                Compile(call.pattern), call.prefixes, 1, get_colors(tty))

\* The match [s, e) of the text starts or ends inside a run of word
\* characters: its first character and the one before it are word
\* characters, or its last character and the one after it.
InsideRun(text, s, e) ==
    /\ s < e
    /\ \/ s >= 1 /\ IsWord(text[s]) /\ IsWord(text[s + 1])
       \/ e < Len(text) /\ IsWord(text[e]) /\ IsWord(text[e + 1])

\* C6: no match of the pattern built with -w is a part of a longer run of
\* word characters.
C6_WholeWord ==
    (pc = "returned" /\ ret.fn = "regex") =>
        \A j \in 1..Len(ret.matches) :
            ~InsideRun(call.text, ret.matches[j][1], ret.matches[j][2])

\* a is b with some elements left out, the order kept.
RECURSIVE IsSubsequence(_, _)
IsSubsequence(a, b) ==
    IF a = <<>> THEN TRUE
    ELSE IF b = <<>> THEN FALSE
    ELSE IF Head(a) = Head(b) THEN IsSubsequence(Tail(a), Tail(b))
    ELSE IsSubsequence(a, Tail(b))

\* The entries of the parsed files of the list, in the order of the list and
\* of each catalog, as matches.
RECURSIVE Scanned(_)
Scanned(k) ==
    IF k > Len(files) THEN <<>>
    ELSE (IF Parsed(k)
          THEN [n \in 1..Len(pofile(files[k]).entries) |-> AsMatch(k, n)]
          ELSE <<>>)
         \o Scanned(k + 1)

Wanted(m) ==
    /\ m.msgstr # <<>>
    /\ \/ searchOriginal /\ PatternMatches(m.msgid)
       \/ searchTranslation /\ PatternMatches(m.msgstr)

\* C7: when find_in_po returns, the results are the scanned entries that
\* match, in their order: a subsequence of them, each matching entry once
\* for each time it was scanned.
C7_OrderPreserved ==
    pc = "returned" =>
        /\ IsSubsequence(results, Scanned(1))
        /\ Len(results) =
              Cardinality({n \in 1..Len(Scanned(1)) : Wanted(Scanned(1)[n])})

\* C7 witness: the same catalog scanned twice, two matches in each scan.
C7_Witness ==
    /\ pc = "returned"
    /\ Len(results) >= 4
    /\ \E i \in 1..Len(results), j \in 1..Len(results) :
          i < j /\ results[i] = results[j]
    /\ \E i \in 1..(Len(results) - 1) : results[i].line < results[i + 1].line

\* C8: main does not return when the pattern does not compile.
C8_InvalidPatternFatal ==
    ~(pc = "done" /\ ~Compile(args.pattern).valid)

\* The warnings of the files polib refused, in the order of the list.
RECURSIVE Warnings(_)
Warnings(k) ==
    IF k > Len(files) THEN <<>>
    ELSE (IF Refused(k)
          THEN <<[kind |-> "doesn't seem to be a .po file", text |-> files[k]]>>
          ELSE <<>>)
         \o Warnings(k + 1)

\* C10: nothing is written while the files are scanned; once every file is
\* scanned the warnings are written, in the order of the files, or none with
\* -s, and only then the results; main returns with status 0.
C10_WarningsThenResults ==
    /\ pc \in {"scan", "report"} => stderr = <<>> /\ stdout = <<>>
    /\ pc \in {"display", "done"} =>
          /\ idx > Len(files)
          /\ stderr = IF args.no_messages THEN <<>> ELSE Warnings(1)
    /\ pc = "display" => stdout = <<>>
    /\ pc = "done" => status = 0

\* C10 witness: main has returned, two warnings of two files written and
\* a result printed.
C10_Witness ==
    /\ pc = "done"
    /\ status = 0
    /\ Len(stderr) = 2 /\ stderr[1] # stderr[2]
    /\ results # <<>>
    /\ stdout # <<>>

====
